---- MODULE Spec2Model ----
(***************************************************************************)
(* Model of gpmp2::internal::ISAM2TrajOptimizer                            *)
(* (gpmp2/planner/ISAM2TrajOptimizer-inl.h): the incremental graph-delta   *)
(* bookkeeping around a gtsam::ISAM2 solver.                               *)
(*                                                                         *)
(* A factor is a record [type, keys, val, line]:                           *)
(*   type : the C++ factor class that was added,                           *)
(*   keys : the gtsam keys it references, Symbol(c, i) as <<c, i>>,        *)
(*   val  : the measured value of a PriorFactor (for the interpolated      *)
(*          obstacle factor: the multiplier j of tau = inter_dt * j),      *)
(*   line : the source line of the inc_graph_.add(...) that created it.    *)
(*                                                                         *)
(* The solver isam_ is a gtsam::ISAM2, built with the default              *)
(* findUnusedFactorSlots = false.  Its update(newFactors, newTheta,        *)
(* removeFactorIndices) is modelled by what the optimizer relies on: the   *)
(* new factors are pushed back onto the factor store in order, then every  *)
(* slot named in removeFactorIndices is reset to null; slots are never     *)
(* compacted.  getFactorsUnsafe().size() is the raw number of slots.       *)
(***************************************************************************)
EXTENDS Integers, Sequences, FiniteSets, TLC

\* ---------------------------------------------------------------- bounds
MaxStep == 2      \* setting_.total_step is 0, 1 or MaxStep
MaxInter == 1     \* setting_.obs_check_inter is 0 or MaxInter
MaxCalls == 3     \* initFactorGraph + changeGoalConfigAndVel + fixConfigAndVel
                  \*   calls in one run

\* <<Pose, Velocity>> arguments of the calls
StartArgs == {<<0, 0>>}
BuildGoalArgs == {<<1, 0>>}
GoalArgs == {<<1, 0>>, <<2, 1>>}
FixArgs == {<<3, 1>>}

VARIABLES
  total_step,              \* setting_.total_step
  obs_check_inter,         \* setting_.obs_check_inter
  inc_graph,               \* inc_graph_ : pending factors, in order
  init_values,             \* init_values_ : pending initial guesses
  removed_factor_index,    \* removed_factor_index_ : pending removals, in order
  goal_conf_factor_idx,    \* goal_conf_factor_idx_
  goal_vel_factor_idx,     \* goal_vel_factor_idx_
  isam_factors,            \* isam_.getFactorsUnsafe() : committed slots
  isam_theta,              \* isam_ : values of the variables the solver knows
  opt_values,              \* opt_values_ : cached estimate
  lastOp,                  \* history: the member function that ran last
  lastComputed,            \* history: the <<pose, velocity>> indices the last
                           \*   caching assignment computed
  fromIdle,                \* history: <<raw size, live count>> of the committed
                           \*   store when the last changeGoalConfigAndVel was
                           \*   called on empty buffers and update() alone
                           \*   followed it; <<>> otherwise
  idleUpdate,              \* history: the last call was update() and all three
                           \*   buffers were empty when it began
  lastBatch,               \* history: the number of factors the last call
                           \*   committed, when it was update(); 0 otherwise
  lastGoal,                \* history: <<goal_conf, goal_vel>> of the last
                           \*   initFactorGraph / changeGoalConfigAndVel call
  builds,                  \* history: number of initFactorGraph calls
  calls                    \* history: number of calls that add factors

vars == <<total_step, obs_check_inter, inc_graph, init_values,
          removed_factor_index, goal_conf_factor_idx, goal_vel_factor_idx,
          isam_factors, isam_theta, opt_values, lastOp, lastComputed,
          fromIdle, idleUpdate, lastBatch, lastGoal, builds, calls>>

setting == <<total_step, obs_check_inter>>
DeltaBuffer == <<inc_graph, init_values, removed_factor_index>>
IndexCache == <<goal_conf_factor_idx, goal_vel_factor_idx>>
Committed == <<isam_factors, isam_theta, opt_values>>

\* ------------------------------------------------------------- factors
Symbol(c, i) == <<c, i>>

EmptyValues == [k \in {} |-> 0]

NullFactor == [type |-> "null", keys |-> {}, val |-> 0, line |-> 0]

PriorFactorPose(key, v, ln) ==
  [type |-> "PriorFactor<Pose>", keys |-> {key}, val |-> v, line |-> ln]

PriorFactorVelocity(key, v, ln) ==
  [type |-> "PriorFactor<Velocity>", keys |-> {key}, val |-> v, line |-> ln]

OBS_FACTOR(pose_key) ==
  [type |-> "OBS_FACTOR", keys |-> {pose_key}, val |-> 0, line |-> 53]

OBS_FACTOR_GP(last_pose_key, last_vel_key, pose_key, vel_key, j) ==
  [type |-> "OBS_FACTOR_GP",
   keys |-> {last_pose_key, last_vel_key, pose_key, vel_key},
   val |-> j, line |-> 63]

GP(last_pose_key, last_vel_key, pose_key, vel_key) ==
  [type |-> "GP", keys |-> {last_pose_key, last_vel_key, pose_key, vel_key},
   val |-> 0, line |-> 70]

\* ------------------------------------------------------------- helpers
Range(s) == {s[i] : i \in 1..Len(s)}

\* The keys of a trajectory of n steps: one Pose and one Velocity per step.
TrajKeys(n) == {Symbol("x", i) : i \in 0..n} \cup {Symbol("v", i) : i \in 0..n}

\* Inner loop of initFactorGraph: j = 1..obs_check_inter, in increasing order.
InterpolatedFactors(i, inter) ==
  [j \in 1..inter |->
     OBS_FACTOR_GP(Symbol("x", i-1), Symbol("v", i-1),
                   Symbol("x", i), Symbol("v", i), j)]

\* The loop body with the obstacle factor in the else branch of the start /
\* goal test, so that the first and the last step get none.
BuildStep_obstacleInElse(i, n, inter, s, start_conf, start_vel, goal_conf, goal_vel) ==
  LET pose_key == Symbol("x", i)
      vel_key == Symbol("v", i)
      s1 == IF i = 0
              THEN [s EXCEPT !.g = s.g \o <<PriorFactorPose(pose_key, start_conf, 42),
                                           PriorFactorVelocity(vel_key, start_vel, 43)>>]
              ELSE IF i = n
                THEN LET g1 == Append(s.g, PriorFactorPose(pose_key, goal_conf, 46))
                         c1 == Len(g1) - 1
                         g2 == Append(g1, PriorFactorVelocity(vel_key, goal_vel, 48))
                         v1 == Len(g2) - 1
                     IN [g |-> g2, c |-> c1, v |-> v1]
                ELSE [s EXCEPT !.g = Append(s.g, OBS_FACTOR(pose_key))]
      s2 == s1
  IN IF i > 0
       THEN [s2 EXCEPT !.g = (s2.g \o InterpolatedFactors(i, inter))
                               \o <<GP(Symbol("x", i-1), Symbol("v", i-1),
                                       pose_key, vel_key)>>]
       ELSE s2

\* The loop body with the velocity key built from the pose symbol.
BuildStep_velKeyOfPose(i, n, inter, s, start_conf, start_vel, goal_conf, goal_vel) ==
  LET pose_key == Symbol("x", i)
      vel_key == Symbol("x", i)
      s1 == IF i = 0
              THEN [s EXCEPT !.g = s.g \o <<PriorFactorPose(pose_key, start_conf, 42),
                                           PriorFactorVelocity(vel_key, start_vel, 43)>>]
              ELSE IF i = n
                THEN LET g1 == Append(s.g, PriorFactorPose(pose_key, goal_conf, 46))
                         c1 == Len(g1) - 1
                         g2 == Append(g1, PriorFactorVelocity(vel_key, goal_vel, 48))
                         v1 == Len(g2) - 1
                     IN [g |-> g2, c |-> c1, v |-> v1]
                ELSE s
      s2 == [s1 EXCEPT !.g = Append(s1.g, OBS_FACTOR(pose_key))]
  IN IF i > 0
       THEN [s2 EXCEPT !.g = (s2.g \o InterpolatedFactors(i, inter))
                               \o <<GP(Symbol("x", i-1), Symbol("v", i-1),
                                       pose_key, vel_key)>>]
       ELSE s2

\* The loop body with the GP factor added ahead of the interpolated obstacle
\* factors of its interval.
BuildStep_smoothnessFirst(i, n, inter, s, start_conf, start_vel, goal_conf, goal_vel) ==
  LET pose_key == Symbol("x", i)
      vel_key == Symbol("v", i)
      s1 == IF i = 0
              THEN [s EXCEPT !.g = s.g \o <<PriorFactorPose(pose_key, start_conf, 42),
                                           PriorFactorVelocity(vel_key, start_vel, 43)>>]
              ELSE IF i = n
                THEN LET g1 == Append(s.g, PriorFactorPose(pose_key, goal_conf, 46))
                         c1 == Len(g1) - 1
                         g2 == Append(g1, PriorFactorVelocity(vel_key, goal_vel, 48))
                         v1 == Len(g2) - 1
                     IN [g |-> g2, c |-> c1, v |-> v1]
                ELSE s
      s2 == [s1 EXCEPT !.g = Append(s1.g, OBS_FACTOR(pose_key))]
  IN IF i > 0
       THEN [s2 EXCEPT !.g = (s2.g \o <<GP(Symbol("x", i-1), Symbol("v", i-1),
                                          pose_key, vel_key)>>)
                               \o InterpolatedFactors(i, inter)]
       ELSE s2

\* One iteration of the loop of initFactorGraph on s = [g, c, v]: the graph,
\* and the two cached goal indices.
BuildStep(i, n, inter, s, start_conf, start_vel, goal_conf, goal_vel) ==
  LET pose_key == Symbol("x", i)
      vel_key == Symbol("v", i)
      s1 == IF i = 0
              THEN [s EXCEPT !.g = s.g \o <<PriorFactorPose(pose_key, start_conf, 42),
                                           PriorFactorVelocity(vel_key, start_vel, 43)>>]
              ELSE IF i = n
                THEN LET g1 == Append(s.g, PriorFactorPose(pose_key, goal_conf, 46))
                         c1 == Len(g1) - 1
                         g2 == Append(g1, PriorFactorVelocity(vel_key, goal_vel, 48))
                         v1 == Len(g2) - 1
                     IN [g |-> g2, c |-> c1, v |-> v1]
                ELSE s
      s2 == [s1 EXCEPT !.g = Append(s1.g, OBS_FACTOR(pose_key))]
  IN IF i > 0
       THEN [s2 EXCEPT !.g = (s2.g \o InterpolatedFactors(i, inter))
                               \o <<GP(Symbol("x", i-1), Symbol("v", i-1),
                                       pose_key, vel_key)>>]
       ELSE s2

RECURSIVE BuildLoop(_, _, _, _, _, _, _, _)
BuildLoop(i, n, inter, s, start_conf, start_vel, goal_conf, goal_vel) ==
  IF i > n
    THEN s
    ELSE BuildLoop(i + 1, n, inter,
                   BuildStep(i, n, inter, s, start_conf, start_vel, goal_conf, goal_vel),
                   start_conf, start_vel, goal_conf, goal_vel)

\* gtsam::ISAM2::update with findUnusedFactorSlots set: the new factors fill
\* the slots freed by earlier removals, lowest first, before the store grows.
ISAM2Update_reusesSlots(factors, newFactors, removeFactorIndices) ==
  LET free == {p \in 1..Len(factors) : factors[p] = NullFactor}
      nFree == Cardinality(free)
      Rank(p) == Cardinality({q \in free : q <= p})
      extra == IF Len(newFactors) > nFree THEN Len(newFactors) - nFree ELSE 0
      all == [p \in 1..(Len(factors) + extra) |->
                IF p > Len(factors) THEN newFactors[nFree + p - Len(factors)]
                ELSE IF p \in free /\ Rank(p) <= Len(newFactors)
                  THEN newFactors[Rank(p)]
                  ELSE factors[p]]
  IN [p \in 1..Len(all) |->
        IF (p - 1) \in Range(removeFactorIndices)
          THEN NullFactor
          ELSE all[p]]

\* A solver that retracts the removal indices before it appends the new
\* factors: an index at or beyond the committed size names nothing yet.
ISAM2Update_removesBeforeAppend(factors, newFactors, removeFactorIndices) ==
  [p \in 1..Len(factors) |->
     IF (p - 1) \in Range(removeFactorIndices) THEN NullFactor ELSE factors[p]]
    \o newFactors

\* gtsam::ISAM2::update on the factor store: push back the new factors, then
\* reset the removed slots.
ISAM2Update(factors, newFactors, removeFactorIndices) ==
  LET all == factors \o newFactors
  IN [p \in 1..Len(all) |->
        IF (p - 1) \in Range(removeFactorIndices) THEN NullFactor ELSE all[p]]

\* gtsam::ISAM2::update on the variables: new variables enter with their guess.
ISAM2Theta(theta, newTheta) ==
  [k \in (DOMAIN theta) \cup (DOMAIN newTheta) |->
     IF k \in DOMAIN theta THEN theta[k] ELSE newTheta[k]]

\* The slots of the store that hold a factor (were not removed).
Live(factors) == {p \in 1..Len(factors) : factors[p] # NullFactor}

\* All three buffers are empty.
Idle == inc_graph = <<>> /\ init_values = EmptyValues /\ removed_factor_index = <<>>

IsPrior(f) == f.type \in {"PriorFactor<Pose>", "PriorFactor<Velocity>"}

\* isam_.calculateEstimate(): every known variable sits at the value of the
\* last live prior on it, and at its guess when no prior pins it.
calculateEstimate(factors, theta) ==
  [k \in DOMAIN theta |->
     LET ps == {p \in 1..Len(factors) : IsPrior(factors[p]) /\ k \in factors[p].keys}
     IN IF ps = {} THEN theta[k]
        ELSE factors[CHOOSE p \in ps : \A q \in ps : q <= p].val]

\* ---------------------------------------------------------------- state
\* The constructor: empty buffers, an empty solver, both cached indices 0.
Init ==
  /\ total_step \in {0, 1, MaxStep}
  /\ obs_check_inter \in {0, MaxInter}
  /\ inc_graph = <<>>
  /\ init_values = EmptyValues
  /\ removed_factor_index = <<>>
  /\ goal_conf_factor_idx = 0
  /\ goal_vel_factor_idx = 0
  /\ isam_factors = <<>>
  /\ isam_theta = EmptyValues
  /\ opt_values = EmptyValues
  /\ lastOp = "ISAM2TrajOptimizer"
  /\ lastComputed = <<0, 0>>
  /\ fromIdle = <<>>
  /\ idleUpdate = FALSE
  /\ lastBatch = 0
  /\ lastGoal = <<>>
  /\ builds = 0
  /\ calls = 0

initFactorGraph(start_conf, start_vel, goal_conf, goal_vel) ==
  LET r == BuildLoop(0, total_step, obs_check_inter,
                     [g |-> inc_graph, c |-> goal_conf_factor_idx,
                      v |-> goal_vel_factor_idx],
                     start_conf, start_vel, goal_conf, goal_vel)
  IN /\ calls < MaxCalls
     /\ inc_graph' = r.g
     /\ goal_conf_factor_idx' = r.c
     /\ goal_vel_factor_idx' = r.v
     /\ lastComputed' = IF total_step >= 1 THEN <<r.c, r.v>> ELSE lastComputed
     /\ lastOp' = "initFactorGraph"
     /\ idleUpdate' = FALSE
     /\ lastBatch' = 0
     /\ lastGoal' = <<goal_conf, goal_vel>>
     /\ fromIdle' = <<>>
     /\ builds' = builds + 1
     /\ calls' = calls + 1
     /\ UNCHANGED <<setting, init_values, removed_factor_index, Committed>>

initValues(values) ==
  /\ init_values' = values
  /\ lastOp' = "initValues"
  /\ idleUpdate' = FALSE
  /\ lastBatch' = 0
  /\ lastGoal' = lastGoal
  /\ fromIdle' = <<>>
  /\ UNCHANGED <<setting, inc_graph, removed_factor_index, IndexCache,
                 Committed, lastComputed, builds, calls>>

\* update() that leaves the removal list as it was.
update_keepsRemovals ==
  /\ isam_factors' = ISAM2Update(isam_factors, inc_graph, removed_factor_index)
  /\ isam_theta' = ISAM2Theta(isam_theta, init_values)
  /\ opt_values' = calculateEstimate(isam_factors', isam_theta')
  /\ init_values' = EmptyValues
  /\ inc_graph' = <<>>
  /\ lastOp' = "update"
  /\ idleUpdate' = Idle
  /\ lastBatch' = Len(inc_graph)
  /\ lastGoal' = lastGoal
  /\ fromIdle' = IF lastOp = "changeGoalConfigAndVel" THEN fromIdle ELSE <<>>
  /\ UNCHANGED <<setting, removed_factor_index, IndexCache, lastComputed, builds, calls>>

\* update() that empties the buffers before it hands them to the solver.
update_clearsFirst ==
  /\ isam_factors' = ISAM2Update(isam_factors, <<>>, <<>>)
  /\ isam_theta' = ISAM2Theta(isam_theta, EmptyValues)
  /\ opt_values' = calculateEstimate(isam_factors', isam_theta')
  /\ init_values' = EmptyValues
  /\ inc_graph' = <<>>
  /\ removed_factor_index' = <<>>
  /\ lastOp' = "update"
  /\ idleUpdate' = Idle
  /\ lastBatch' = Len(inc_graph)
  /\ lastGoal' = lastGoal
  /\ fromIdle' = IF lastOp = "changeGoalConfigAndVel" THEN fromIdle ELSE <<>>
  /\ UNCHANGED <<setting, IndexCache, lastComputed, builds, calls>>

\* update() without init_values_.clear().
update_keepsValues ==
  /\ isam_factors' = ISAM2Update(isam_factors, inc_graph, removed_factor_index)
  /\ isam_theta' = ISAM2Theta(isam_theta, init_values)
  /\ opt_values' = calculateEstimate(isam_factors', isam_theta')
  /\ init_values' = init_values
  /\ inc_graph' = <<>>
  /\ removed_factor_index' = <<>>
  /\ lastOp' = "update"
  /\ idleUpdate' = Idle
  /\ lastBatch' = Len(inc_graph)
  /\ lastGoal' = lastGoal
  /\ fromIdle' = IF lastOp = "changeGoalConfigAndVel" THEN fromIdle ELSE <<>>
  /\ UNCHANGED <<setting, IndexCache, lastComputed, builds, calls>>

\* update() that reads the estimate off the pending initial values.
update_estimateFromInitValues ==
  /\ isam_factors' = ISAM2Update(isam_factors, inc_graph, removed_factor_index)
  /\ isam_theta' = ISAM2Theta(isam_theta, init_values)
  /\ opt_values' = init_values
  /\ init_values' = EmptyValues
  /\ inc_graph' = <<>>
  /\ removed_factor_index' = <<>>
  /\ lastOp' = "update"
  /\ idleUpdate' = Idle
  /\ lastBatch' = Len(inc_graph)
  /\ lastGoal' = lastGoal
  /\ fromIdle' = IF lastOp = "changeGoalConfigAndVel" THEN fromIdle ELSE <<>>
  /\ UNCHANGED <<setting, IndexCache, lastComputed, builds, calls>>

update ==
  /\ isam_factors' = ISAM2Update(isam_factors, inc_graph, removed_factor_index)
  /\ isam_theta' = ISAM2Theta(isam_theta, init_values)
  /\ opt_values' = calculateEstimate(isam_factors', isam_theta')
  /\ init_values' = EmptyValues
  /\ inc_graph' = <<>>
  /\ removed_factor_index' = <<>>
  /\ lastOp' = "update"
  /\ idleUpdate' = Idle
  /\ lastBatch' = Len(inc_graph)
  /\ lastGoal' = lastGoal
  /\ fromIdle' = IF lastOp = "changeGoalConfigAndVel" THEN fromIdle ELSE <<>>
  /\ UNCHANGED <<setting, IndexCache, lastComputed, builds, calls>>

\* changeGoalConfigAndVel that fills the removal list after it has overwritten the cache.
changeGoal_pushesNew(goal_conf, goal_vel) ==
  LET g1 == Append(inc_graph,
                   PriorFactorPose(Symbol("x", total_step), goal_conf, 113))
      c1 == Len(isam_factors) + Len(g1) - 1
      g2 == Append(g1, PriorFactorVelocity(Symbol("v", total_step), goal_vel, 119))
      v1 == Len(isam_factors) + Len(g2) - 1
      r1 == removed_factor_index \o <<c1, v1>>
  IN /\ calls < MaxCalls
     /\ removed_factor_index' = r1
     /\ inc_graph' = g2
     /\ goal_conf_factor_idx' = c1
     /\ goal_vel_factor_idx' = v1
     /\ lastComputed' = <<c1, v1>>
     /\ lastOp' = "changeGoalConfigAndVel"
     /\ idleUpdate' = FALSE
     /\ lastBatch' = 0
     /\ lastGoal' = <<goal_conf, goal_vel>>
     /\ fromIdle' = IF Idle THEN <<Len(isam_factors), Cardinality(Live(isam_factors))>>
                            ELSE <<>>
     /\ calls' = calls + 1
     /\ UNCHANGED <<setting, init_values, Committed, builds>>

\* changeGoalConfigAndVel that caches the position within inc_graph_ alone.
changeGoal_bufferIndex(goal_conf, goal_vel) ==
  LET g1 == Append(inc_graph,
                   PriorFactorPose(Symbol("x", total_step), goal_conf, 113))
      c1 == Len(g1) - 1
      g2 == Append(g1, PriorFactorVelocity(Symbol("v", total_step), goal_vel, 119))
      v1 == Len(g2) - 1
      r1 == removed_factor_index \o <<goal_conf_factor_idx, goal_vel_factor_idx>>
  IN /\ calls < MaxCalls
     /\ removed_factor_index' = r1
     /\ inc_graph' = g2
     /\ goal_conf_factor_idx' = c1
     /\ goal_vel_factor_idx' = v1
     /\ lastComputed' = <<c1, v1>>
     /\ lastOp' = "changeGoalConfigAndVel"
     /\ idleUpdate' = FALSE
     /\ lastBatch' = 0
     /\ lastGoal' = <<goal_conf, goal_vel>>
     /\ fromIdle' = IF Idle THEN <<Len(isam_factors), Cardinality(Live(isam_factors))>>
                            ELSE <<>>
     /\ calls' = calls + 1
     /\ UNCHANGED <<setting, init_values, Committed, builds>>

\* changeGoalConfigAndVel that retracts the old goal pose factor only.
changeGoal_oneRemoval(goal_conf, goal_vel) ==
  LET g1 == Append(inc_graph,
                   PriorFactorPose(Symbol("x", total_step), goal_conf, 113))
      c1 == Len(isam_factors) + Len(g1) - 1
      g2 == Append(g1, PriorFactorVelocity(Symbol("v", total_step), goal_vel, 119))
      v1 == Len(isam_factors) + Len(g2) - 1
      r1 == Append(removed_factor_index, goal_conf_factor_idx)
  IN /\ calls < MaxCalls
     /\ removed_factor_index' = r1
     /\ inc_graph' = g2
     /\ goal_conf_factor_idx' = c1
     /\ goal_vel_factor_idx' = v1
     /\ lastComputed' = <<c1, v1>>
     /\ lastOp' = "changeGoalConfigAndVel"
     /\ idleUpdate' = FALSE
     /\ lastBatch' = 0
     /\ lastGoal' = <<goal_conf, goal_vel>>
     /\ fromIdle' = IF Idle THEN <<Len(isam_factors), Cardinality(Live(isam_factors))>>
                            ELSE <<>>
     /\ calls' = calls + 1
     /\ UNCHANGED <<setting, init_values, Committed, builds>>

\* changeGoalConfigAndVel that caches the goal pose index before adding the
\* new goal pose factor.
changeGoal_cachesBeforeAdd(goal_conf, goal_vel) ==
  LET r1 == removed_factor_index \o <<goal_conf_factor_idx, goal_vel_factor_idx>>
      c1 == Len(isam_factors) + Len(inc_graph) - 1
      g1 == Append(inc_graph,
                   PriorFactorPose(Symbol("x", total_step), goal_conf, 113))
      g2 == Append(g1, PriorFactorVelocity(Symbol("v", total_step), goal_vel, 119))
      v1 == Len(isam_factors) + Len(g2) - 1
  IN /\ calls < MaxCalls
     /\ removed_factor_index' = r1
     /\ inc_graph' = g2
     /\ goal_conf_factor_idx' = c1
     /\ goal_vel_factor_idx' = v1
     /\ lastComputed' = <<c1, v1>>
     /\ lastOp' = "changeGoalConfigAndVel"
     /\ idleUpdate' = FALSE
     /\ lastBatch' = 0
     /\ lastGoal' = <<goal_conf, goal_vel>>
     /\ fromIdle' = IF Idle THEN <<Len(isam_factors), Cardinality(Live(isam_factors))>>
                            ELSE <<>>
     /\ calls' = calls + 1
     /\ UNCHANGED <<setting, init_values, Committed, builds>>

\* changeGoalConfigAndVel without the second caching assignment: the cached
\* goal velocity index stays what it was.
changeGoal_staleVelIndex(goal_conf, goal_vel) ==
  LET r1 == removed_factor_index \o <<goal_conf_factor_idx, goal_vel_factor_idx>>
      g1 == Append(inc_graph,
                   PriorFactorPose(Symbol("x", total_step), goal_conf, 113))
      c1 == Len(isam_factors) + Len(g1) - 1
      g2 == Append(g1, PriorFactorVelocity(Symbol("v", total_step), goal_vel, 119))
      v1 == goal_vel_factor_idx
  IN /\ calls < MaxCalls
     /\ removed_factor_index' = r1
     /\ inc_graph' = g2
     /\ goal_conf_factor_idx' = c1
     /\ goal_vel_factor_idx' = v1
     /\ lastComputed' = <<c1, v1>>
     /\ lastOp' = "changeGoalConfigAndVel"
     /\ idleUpdate' = FALSE
     /\ lastBatch' = 0
     /\ lastGoal' = <<goal_conf, goal_vel>>
     /\ fromIdle' = IF Idle THEN <<Len(isam_factors), Cardinality(Live(isam_factors))>>
                            ELSE <<>>
     /\ calls' = calls + 1
     /\ UNCHANGED <<setting, init_values, Committed, builds>>

changeGoalConfigAndVel(goal_conf, goal_vel) ==
  LET r1 == removed_factor_index \o <<goal_conf_factor_idx, goal_vel_factor_idx>>
      g1 == Append(inc_graph,
                   PriorFactorPose(Symbol("x", total_step), goal_conf, 113))
      c1 == Len(isam_factors) + Len(g1) - 1
      g2 == Append(g1, PriorFactorVelocity(Symbol("v", total_step), goal_vel, 119))
      v1 == Len(isam_factors) + Len(g2) - 1
  IN /\ calls < MaxCalls
     /\ removed_factor_index' = r1
     /\ inc_graph' = g2
     /\ goal_conf_factor_idx' = c1
     /\ goal_vel_factor_idx' = v1
     /\ lastComputed' = <<c1, v1>>
     /\ lastOp' = "changeGoalConfigAndVel"
     /\ idleUpdate' = FALSE
     /\ lastBatch' = 0
     /\ lastGoal' = <<goal_conf, goal_vel>>
     /\ fromIdle' = IF Idle THEN <<Len(isam_factors), Cardinality(Live(isam_factors))>>
                            ELSE <<>>
     /\ calls' = calls + 1
     /\ UNCHANGED <<setting, init_values, Committed, builds>>

\* fixConfigAndVel that adds the velocity prior before the pose prior.
fixConfigAndVel_velocityFirst(state_idx, conf_fix, vel_fix) ==
  /\ calls < MaxCalls
  /\ inc_graph' = inc_graph \o <<PriorFactorVelocity(Symbol("v", state_idx), vel_fix, 134),
                                 PriorFactorPose(Symbol("x", state_idx), conf_fix, 133)>>
  /\ lastOp' = "fixConfigAndVel"
  /\ idleUpdate' = FALSE
  /\ lastBatch' = 0
  /\ lastGoal' = lastGoal
  /\ fromIdle' = <<>>
  /\ calls' = calls + 1
  /\ UNCHANGED <<setting, init_values, removed_factor_index, IndexCache,
                 Committed, lastComputed, builds>>

\* fixConfigAndVel that also writes the pinned state into the estimate.
fixConfigAndVel_writesEstimate(state_idx, conf_fix, vel_fix) ==
  /\ calls < MaxCalls
  /\ inc_graph' = inc_graph \o <<PriorFactorPose(Symbol("x", state_idx), conf_fix, 133),
                                 PriorFactorVelocity(Symbol("v", state_idx), vel_fix, 134)>>
  /\ opt_values' = [k \in DOMAIN opt_values |->
                      IF k = Symbol("x", state_idx) THEN conf_fix
                      ELSE IF k = Symbol("v", state_idx) THEN vel_fix
                      ELSE opt_values[k]]
  /\ lastOp' = "fixConfigAndVel"
  /\ idleUpdate' = FALSE
  /\ lastBatch' = 0
  /\ lastGoal' = lastGoal
  /\ fromIdle' = <<>>
  /\ calls' = calls + 1
  /\ UNCHANGED <<setting, init_values, removed_factor_index, IndexCache,
                 isam_factors, isam_theta, lastComputed, builds>>

fixConfigAndVel(state_idx, conf_fix, vel_fix) ==
  /\ calls < MaxCalls
  /\ inc_graph' = inc_graph \o <<PriorFactorPose(Symbol("x", state_idx), conf_fix, 133),
                                 PriorFactorVelocity(Symbol("v", state_idx), vel_fix, 134)>>
  /\ lastOp' = "fixConfigAndVel"
  /\ idleUpdate' = FALSE
  /\ lastBatch' = 0
  /\ lastGoal' = lastGoal
  /\ fromIdle' = <<>>
  /\ calls' = calls + 1
  /\ UNCHANGED <<setting, init_values, removed_factor_index, IndexCache,
                 Committed, lastComputed, builds>>

\* The arguments the calls are made with.
ValuesArgs == {EmptyValues, [k \in TrajKeys(total_step) |-> 0]}
StateIdxArgs == 0..(total_step + 1)

CallBuild == \E s \in StartArgs, g \in BuildGoalArgs :
               initFactorGraph(s[1], s[2], g[1], g[2])
CallInitValues == \E values \in ValuesArgs : initValues(values)
CallUpdate == update
CallChangeGoal == \E g \in GoalArgs : changeGoalConfigAndVel(g[1], g[2])
CallFix == \E i \in StateIdxArgs, f \in FixArgs : fixConfigAndVel(i, f[1], f[2])

\* Any member function, in any order.
Next ==
  \/ CallBuild
  \/ CallInitValues
  \/ CallUpdate
  \/ CallChangeGoal
  \/ CallFix

Spec == Init /\ [][Next]_vars

\* The intended use: a setting with at least one step, one initial build on
\* the fresh optimizer, then any interleaving of the other calls.
InitBuilt == Init /\ total_step >= 1

NextBuilt ==
  \/ builds = 0 /\ CallBuild
  \/ builds = 1 /\ CallInitValues
  \/ builds = 1 /\ CallUpdate
  \/ builds = 1 /\ CallChangeGoal
  \/ builds = 1 /\ CallFix

SpecBuilt == InitBuilt /\ [][NextBuilt]_vars

\* ================================================================ claims
Pending == isam_factors \o inc_graph   \* the store once the batch is appended

Max(S) == CHOOSE m \in S : \A q \in S : q <= m

PositionsOf(g, lines) == {p \in 1..Len(g) : g[p].line \in lines}

BuildSize == 2 * total_step + 5 + total_step * obs_check_inter

\* C1: after every update(), whatever calls preceded it, inc_graph_,
\* init_values_ and removed_factor_index_ are all empty.
C1_UpdateEmptiesBuffers ==
  lastOp = "update" =>
    /\ Len(inc_graph) = 0
    /\ DOMAIN init_values = {}
    /\ Len(removed_factor_index) = 0

\* An update() has committed factors, values and removals.
C1_Witness ==
  /\ lastOp = "update"
  /\ Len(isam_factors) > 0
  /\ DOMAIN isam_theta # {}
  /\ \E p \in 1..Len(isam_factors) : isam_factors[p] = NullFactor

\* C2: the two indices a changeGoalConfigAndVel call pushes onto
\* removed_factor_index_ are the goal pose and goal velocity indices computed
\* by the last caching assignment before it (of the previous
\* changeGoalConfigAndVel, or of initFactorGraph when there was none).
C2_PushesLastCached ==
  [][CallChangeGoal =>
       removed_factor_index' =
         removed_factor_index \o <<lastComputed[1], lastComputed[2]>>]_vars

\* A changeGoalConfigAndVel has pushed indices that an earlier
\* changeGoalConfigAndVel cached, with an update() in between.
C2_Witness ==
  /\ lastOp = "changeGoalConfigAndVel"
  /\ Len(removed_factor_index) = 2
  /\ removed_factor_index[1] < Len(isam_factors)
  /\ removed_factor_index[1] >= BuildSize

\* C3: after the initial build the cached goal pose (velocity) index is the
\* position, in the committed store followed by the pending factors, of the
\* goal pose (velocity) prior created last: committed size + position within
\* inc_graph_ while it is pending, its slot once it is committed.
C3_CacheIsFutureIndex ==
  builds = 1 =>
    /\ PositionsOf(Pending, {46, 113}) # {}
    /\ goal_conf_factor_idx + 1 = Max(PositionsOf(Pending, {46, 113}))
    /\ PositionsOf(Pending, {48, 119}) # {}
    /\ goal_vel_factor_idx + 1 = Max(PositionsOf(Pending, {48, 119}))

\* A goal prior is pending behind a fixConfigAndVel pair, on a non-empty store.
C3_Witness ==
  /\ builds = 1
  /\ lastOp = "changeGoalConfigAndVel"
  /\ Len(isam_factors) > 0
  /\ Len(inc_graph) = 4
  /\ inc_graph[1].line = 133
  /\ goal_conf_factor_idx = Len(isam_factors) + 2
  /\ goal_vel_factor_idx = Len(isam_factors) + 3

\* C4, as stated: when update() runs, every index of removed_factor_index_ is
\* below the size of the committed store (was committed by an earlier update).
C4_RemovalsAlreadyCommitted ==
  [][update =>
       \A k \in 1..Len(removed_factor_index) :
         removed_factor_index[k] < Len(isam_factors)]_vars

\* C4, amended: when update() runs, every index of removed_factor_index_ is
\* a slot of the committed store followed by the pending factors of this
\* update.
C4_RemovalsValidOnceAppended ==
  [][update =>
       \A k \in 1..Len(removed_factor_index) :
         removed_factor_index[k] < Len(isam_factors) + Len(inc_graph)]_vars

\* Two changeGoalConfigAndVel calls since the last update(): the second
\* removal pair names factors of the pending batch.
C4_Witness ==
  /\ builds = 1
  /\ lastOp = "changeGoalConfigAndVel"
  /\ Len(isam_factors) > 0
  /\ Len(removed_factor_index) = 4
  /\ removed_factor_index[1] < Len(isam_factors)
  /\ removed_factor_index[3] >= Len(isam_factors)

\* C5: from empty buffers and a committed initial build, one
\* changeGoalConfigAndVel followed at once by update() grows the raw store by
\* exactly 2 slots and leaves the number of live factors unchanged.
C5_ChangeGoalThenUpdate ==
  (lastOp = "update" /\ fromIdle # <<>> /\ fromIdle[1] > 0) =>
    /\ Len(isam_factors) = fromIdle[1] + 2
    /\ Cardinality(Live(isam_factors)) = fromIdle[2]

\* changeGoalConfigAndVel on empty buffers and a committed build, then update().
C5_Witness ==
  /\ builds = 1
  /\ lastOp = "update"
  /\ fromIdle # <<>>
  /\ fromIdle[1] = BuildSize
  /\ Len(isam_factors) = BuildSize + 2

KeysOf(g) == UNION {g[p].keys : p \in 1..Len(g)}

CountOf(g, lines) == Cardinality(PositionsOf(g, lines))

\* C6: the initial build on a fresh optimizer with total_step >= 1 emits
\* 2 start priors, 2 goal priors, total_step + 1 obstacle factors, total_step
\* GP factors and total_step * obs_check_inter interpolated obstacle factors:
\* 2 * total_step + 5 + total_step * obs_check_inter factors, and no others.
C6_BuildCounts ==
  lastOp = "initFactorGraph" =>
    /\ Len(inc_graph) = 2 * total_step + 5 + total_step * obs_check_inter
    /\ CountOf(inc_graph, {42, 43}) = 2
    /\ CountOf(inc_graph, {46, 48}) = 2
    /\ CountOf(inc_graph, {53}) = total_step + 1
    /\ CountOf(inc_graph, {70}) = total_step
    /\ CountOf(inc_graph, {63}) = total_step * obs_check_inter

\* The build of a trajectory with a middle step and interpolated checks.
C6_Witness ==
  /\ lastOp = "initFactorGraph"
  /\ total_step = 2
  /\ obs_check_inter = 1
  /\ Len(inc_graph) = 11

\* C7: the factors of the initial build reference exactly the keys x_i and
\* v_i for i = 0..total_step, 2 * (total_step + 1) keys, and no factor added
\* by changeGoalConfigAndVel references a key outside that set.
C7_TrajectoryKeys ==
  /\ lastOp = "initFactorGraph" =>
       /\ KeysOf(inc_graph) = TrajKeys(total_step)
       /\ Cardinality(KeysOf(inc_graph)) = 2 * (total_step + 1)
  /\ \A p \in PositionsOf(Pending, {113, 119}) :
       Pending[p].keys \subseteq TrajKeys(total_step)

\* The goal has been changed after the build was committed.
C7_Witness ==
  /\ builds = 1
  /\ total_step = 2
  /\ lastOp = "changeGoalConfigAndVel"
  /\ isam_factors # <<>>
  /\ KeysOf(isam_factors) = TrajKeys(total_step)
  /\ PositionsOf(inc_graph, {113, 119}) # {}

\* C8, as stated: fixConfigAndVel with state_idx > total_step changes none of
\* the buffers, the cached indices, the estimate and the committed store.
C8_OutOfRangeFixChangesNothing ==
  [][\A i \in StateIdxArgs, f \in FixArgs :
       (i > total_step /\ fixConfigAndVel(i, f[1], f[2])) =>
         UNCHANGED <<DeltaBuffer, IndexCache, Committed>>]_vars

\* C9, as stated: initFactorGraph with total_step = 0 adds no factor and
\* leaves the cached goal indices as they were.
C9_ZeroStepBuildRejected ==
  [][(total_step = 0 /\ CallBuild) => UNCHANGED <<inc_graph, IndexCache>>]_vars

\* C10: fixConfigAndVel with 0 <= state_idx <= total_step appends exactly two
\* priors to the end of inc_graph_, the Pose prior on x_state_idx and then the
\* Velocity prior on v_state_idx, and leaves removed_factor_index_,
\* init_values_, the cached goal indices and the factors already pending
\* unchanged.
C10_FixIsAdditive ==
  [][\A i \in 0..total_step, f \in FixArgs :
       fixConfigAndVel(i, f[1], f[2]) =>
         /\ Len(inc_graph') = Len(inc_graph) + 2
         /\ SubSeq(inc_graph', 1, Len(inc_graph)) = inc_graph
         /\ inc_graph'[Len(inc_graph) + 1].type = "PriorFactor<Pose>"
         /\ inc_graph'[Len(inc_graph) + 1].keys = {Symbol("x", i)}
         /\ inc_graph'[Len(inc_graph) + 1].val = f[1]
         /\ inc_graph'[Len(inc_graph) + 2].type = "PriorFactor<Velocity>"
         /\ inc_graph'[Len(inc_graph) + 2].keys = {Symbol("v", i)}
         /\ inc_graph'[Len(inc_graph) + 2].val = f[2]
         /\ UNCHANGED <<removed_factor_index, init_values, IndexCache>>]_vars

\* A middle step is pinned while a goal change, its removals and initial
\* guesses are pending.
C10_Witness ==
  /\ lastOp = "fixConfigAndVel"
  /\ Len(inc_graph) = 4
  /\ inc_graph[1].line = 113
  /\ inc_graph[3].keys = {Symbol("x", 1)}
  /\ total_step = 2
  /\ Len(removed_factor_index) = 2
  /\ DOMAIN init_values # {}

IntervalKeys(i) ==
  {Symbol("x", i-1), Symbol("v", i-1), Symbol("x", i), Symbol("v", i)}

\* 1-based position in the build of the first factor of step i >= 1.
StepBase(i) == 4 + (i - 1) * (obs_check_inter + 2)

\* C12: the initial build on a fresh optimizer emits, in this order: the start
\* pose prior and the start velocity prior, the obstacle factor of step 0, and
\* for each step i = 1..total_step in increasing order (the goal pose prior
\* and the goal velocity prior first when i = total_step) the obstacle factor
\* of step i, the interpolated obstacle factors j = 1..obs_check_inter of the
\* interval i-1..i, and the GP factor of that interval; the cached goal pose
\* and goal velocity indices are the 0-based positions of the two goal priors.
C12_BuildOrder ==
  lastOp = "initFactorGraph" =>
    LET g == inc_graph
        goalAt == StepBase(total_step)
    IN /\ Len(g) = BuildSize
       /\ g[1].line = 42 /\ g[1].keys = {Symbol("x", 0)}
       /\ g[2].line = 43 /\ g[2].keys = {Symbol("v", 0)}
       /\ g[3].line = 53 /\ g[3].keys = {Symbol("x", 0)}
       /\ \A i \in 1..total_step :
            LET b == StepBase(i) + (IF i = total_step THEN 2 ELSE 0)
            IN /\ g[b].line = 53 /\ g[b].keys = {Symbol("x", i)}
               /\ \A j \in 1..obs_check_inter :
                    /\ g[b + j].line = 63
                    /\ g[b + j].val = j
                    /\ g[b + j].keys = IntervalKeys(i)
               /\ g[b + obs_check_inter + 1].line = 70
               /\ g[b + obs_check_inter + 1].keys = IntervalKeys(i)
       /\ g[goalAt].line = 46 /\ g[goalAt].keys = {Symbol("x", total_step)}
       /\ g[goalAt + 1].line = 48
       /\ g[goalAt + 1].keys = {Symbol("v", total_step)}
       /\ goal_conf_factor_idx = goalAt - 1
       /\ goal_vel_factor_idx = goalAt

\* The build of a trajectory with a middle step and interpolated checks has
\* cached the indices of goal priors that sit behind a full middle step.
C12_Witness ==
  /\ lastOp = "initFactorGraph"
  /\ total_step > 1
  /\ obs_check_inter > 0
  /\ inc_graph[goal_conf_factor_idx + 1].line = 46
  /\ inc_graph[goal_vel_factor_idx + 1].line = 48
  /\ goal_conf_factor_idx = Len(inc_graph) - obs_check_inter - 4
  /\ inc_graph[goal_conf_factor_idx].line = 70

\* C13: update() commits the pending factors in the order in which they were
\* added to inc_graph_: the store grows by the length of inc_graph_, the k-th
\* pending factor (0-based) takes slot (previous size + k), holding that
\* factor unless this update removes the slot, and no earlier slot receives
\* a pending factor.
C13_CommitInAppendOrder ==
  [][update =>
       /\ Len(isam_factors') = Len(isam_factors) + Len(inc_graph)
       /\ \A k \in 0..(Len(inc_graph) - 1) :
            isam_factors'[Len(isam_factors) + k + 1] =
              IF (Len(isam_factors) + k) \in Range(removed_factor_index)
                THEN NullFactor
                ELSE inc_graph[k + 1]
       /\ \A p \in 1..Len(isam_factors) :
            isam_factors'[p] \in {isam_factors[p], NullFactor}]_vars

\* One update() has committed the build, a fixConfigAndVel pair and a
\* changeGoalConfigAndVel pair as a single batch, in call order, retracting
\* the goal priors of the build within the same batch.
C13_Witness ==
  /\ lastOp = "update"
  /\ lastBatch = BuildSize + 4
  /\ Len(isam_factors) = BuildSize + 4
  /\ isam_factors[1].line = 42
  /\ isam_factors[BuildSize].line = 70
  /\ isam_factors[BuildSize + 1].line = 133
  /\ isam_factors[BuildSize + 2].line = 134
  /\ isam_factors[BuildSize + 3].line = 113
  /\ isam_factors[BuildSize + 4].line = 119
  /\ Cardinality(Live(isam_factors)) = BuildSize + 2

\* The calls that add factors; lastOp' names the call a step makes.
Mutators == {"initFactorGraph", "changeGoalConfigAndVel", "fixConfigAndVel"}

\* C14, as stated: with idle = all three buffers empty and dirty = some buffer
\* non-empty, initFactorGraph, changeGoalConfigAndVel and fixConfigAndVel
\* leave the optimizer dirty from either state, update() leaves it idle, and
\* no step other than update() takes it from dirty to idle.
C14_OnlyUpdateLeavesDirty ==
  [][/\ lastOp' \in Mutators => ~Idle'
     /\ lastOp' = "update" => Idle'
     /\ (~Idle /\ Idle') => lastOp' = "update"]_vars

\* C14, amended: as above, except that initValues called with an empty Values
\* while init_values_ is the only non-empty buffer also takes the optimizer
\* from dirty to idle.
C14_IdleDirtyMachine ==
  [][/\ lastOp' \in Mutators => ~Idle'
     /\ lastOp' = "update" => Idle'
     /\ (~Idle /\ Idle') =>
          \/ lastOp' = "update"
          \/ /\ lastOp' = "initValues"
             /\ init_values' = EmptyValues
             /\ inc_graph = <<>>
             /\ removed_factor_index = <<>>]_vars

\* The build, a goal change and a pinned step were pending, each call leaving
\* the buffers non-empty, and an update() on those buffers emptied them.
C14_Witness ==
  /\ lastOp = "update"
  /\ ~idleUpdate
  /\ Idle
  /\ PositionsOf(isam_factors, {46}) = {}
  /\ PositionsOf(isam_factors, {113}) # {}
  /\ PositionsOf(isam_factors, {133}) # {}
  /\ PositionsOf(isam_factors, {42}) # {}

\* C15: update() is the only call that changes the solver's factor store, its
\* variables or opt_values_: initFactorGraph, initValues,
\* changeGoalConfigAndVel and fixConfigAndVel leave all three as they were,
\* so what they buffer shows only after the next update().
C15_OnlyUpdateCommits ==
  [][lastOp' \in Mutators \cup {"initValues"} =>
       UNCHANGED <<isam_factors, isam_theta, opt_values>>]_vars

\* A new goal is pending over a committed build, and the estimate and the
\* store still show the goal of the build.
C15_Witness ==
  /\ lastOp = "changeGoalConfigAndVel"
  /\ total_step >= 1
  /\ lastGoal = <<2, 1>>
  /\ Symbol("x", total_step) \in DOMAIN opt_values
  /\ opt_values[Symbol("x", total_step)] = 1
  /\ PositionsOf(isam_factors, {46}) # {}
  /\ PositionsOf(isam_factors, {113}) = {}
  /\ PositionsOf(inc_graph, {113}) # {}

GoalKeys == {Symbol("x", total_step), Symbol("v", total_step)}

\* C16: after the initial build, every index that an update() submits for
\* removal names, in the committed store followed by the pending factors of
\* that update, a goal prior: a PriorFactor on x_N or v_N added by
\* initFactorGraph (lines 46, 48) or by changeGoalConfigAndVel (lines 113,
\* 119). No start prior, obstacle, interpolated obstacle, GP or
\* fixConfigAndVel factor is removed.
C16_RemovalsAreGoalPriors ==
  [][update =>
       \A k \in 1..Len(removed_factor_index) :
         /\ removed_factor_index[k] + 1 \in 1..Len(Pending)
         /\ Pending[removed_factor_index[k] + 1].line \in {46, 48, 113, 119}
         /\ IsPrior(Pending[removed_factor_index[k] + 1])
         /\ Pending[removed_factor_index[k] + 1].keys \subseteq GoalKeys]_vars

\* The goal step was pinned and the goal changed: the update() retracted the
\* two goal priors of the build and left the fixConfigAndVel priors on the
\* same keys in place.
C16_Witness ==
  /\ lastOp = "update"
  /\ builds = 1
  /\ Cardinality(Live(isam_factors)) = Len(isam_factors) - 2
  /\ PositionsOf(isam_factors, {46, 48}) = {}
  /\ \E p \in PositionsOf(isam_factors, {133}) :
       isam_factors[p].keys = {Symbol("x", total_step)}
  /\ \E p \in PositionsOf(isam_factors, {134}) :
       isam_factors[p].keys = {Symbol("v", total_step)}
  /\ PositionsOf(isam_factors, {113}) # {}

\* The live slots of the store that hold a goal prior added at one of lines.
LiveGoalPriors(lines) ==
  {p \in PositionsOf(isam_factors, lines) :
     /\ IsPrior(isam_factors[p])
     /\ isam_factors[p].keys \subseteq GoalKeys}

\* C17: after the initial build, right after every update() the committed
\* store holds exactly one live goal pose prior and exactly one live goal
\* velocity prior among those added by initFactorGraph and
\* changeGoalConfigAndVel, and they carry the goal pose and goal velocity of
\* the most recent initFactorGraph / changeGoalConfigAndVel call, however
\* many changeGoalConfigAndVel calls the batch held.
C17_OneLiveGoalPair ==
  lastOp = "update" =>
    /\ Cardinality(LiveGoalPriors({46, 113})) = 1
    /\ \A p \in LiveGoalPriors({46, 113}) :
         /\ isam_factors[p].type = "PriorFactor<Pose>"
         /\ isam_factors[p].keys = {Symbol("x", total_step)}
         /\ isam_factors[p].val = lastGoal[1]
    /\ Cardinality(LiveGoalPriors({48, 119})) = 1
    /\ \A p \in LiveGoalPriors({48, 119}) :
         /\ isam_factors[p].type = "PriorFactor<Velocity>"
         /\ isam_factors[p].keys = {Symbol("v", total_step)}
         /\ isam_factors[p].val = lastGoal[2]

\* Two changeGoalConfigAndVel calls between two updates: the batch of the
\* second update held both pairs, the first of them retracted in flight, and
\* the live pair is the one of the second call.
C17_Witness ==
  /\ lastOp = "update"
  /\ lastBatch = 4
  /\ Len(isam_factors) = BuildSize + 4
  /\ Cardinality(Live(isam_factors)) = BuildSize
  /\ LiveGoalPriors({46, 113}) = {BuildSize + 3}
  /\ LiveGoalPriors({48, 119}) = {BuildSize + 4}
  /\ lastGoal = <<2, 1>>

\* The indices that earlier updates have removed: the emptied slots.
RemovedBefore ==
  {p - 1 : p \in (1..Len(isam_factors)) \ Live(isam_factors)}

\* C18: after the initial build, no store index is submitted for removal
\* twice: the removal list of an update() has no repeated entry and no entry
\* that an earlier update() already removed; and the two indices one
\* changeGoalConfigAndVel call pushes are different.
C18_NoIndexRemovedTwice ==
  [][/\ update =>
          /\ \A j, k \in 1..Len(removed_factor_index) :
               j # k => removed_factor_index[j] # removed_factor_index[k]
          /\ \A k \in 1..Len(removed_factor_index) :
               removed_factor_index[k] \notin RemovedBefore
     /\ CallChangeGoal =>
          /\ Len(removed_factor_index') = Len(removed_factor_index) + 2
          /\ removed_factor_index'[Len(removed_factor_index) + 1] #
               removed_factor_index'[Len(removed_factor_index) + 2]]_vars

\* Two updates have each retracted one goal pair: the pair of the build
\* first, then the pair of the first changeGoalConfigAndVel.
C18_Witness ==
  /\ lastOp = "update"
  /\ lastBatch = 2
  /\ Len(isam_factors) = BuildSize + 4
  /\ RemovedBefore =
       {StepBase(total_step) - 1, StepBase(total_step), BuildSize, BuildSize + 1}

====
